---- MODULE Spec2Model ----
(***************************************************************************)
(* The map computation of the Wing Console (useMap): from the construct    *)
(* tree and the raw connections delivered by the "app.map.v2" query to     *)
(* the hidden map, the bridged connections, the node roles, the inflights  *)
(* and the edges handed to the layout engine.                              *)
(*                                                                         *)
(* A JavaScript string is a sequence of tokens: a path segment, "/", "#",  *)
(* an operation name, "source", "target", "invoke", "undefined".  No token *)
(* but "#" holds a "#" and no token but "/" holds a "/", so template       *)
(* strings are concatenations and the regular expression of isNodeHidden   *)
(* works on token positions.                                               *)
(***************************************************************************)
EXTENDS Integers, Sequences, FiniteSets, TLC

VARIABLES
    loaded,          \* query.data is defined
    rawTree,         \* query.data.tree: [fqn, hidden] over the fixed shape Nodes
    rawConnections,  \* query.data.connections
    nodeTypes,       \* useMap().nodeTypes
    hiddenMap,       \* the memoized hiddenMap behind useMap().isNodeHidden
    connections,     \* useMap().connections (bridged)
    edges,           \* useMap().edges
    nodeInfo         \* useMap().nodeInfo

vars == <<loaded, rawTree, rawConnections, nodeTypes, hiddenMap, connections, edges, nodeInfo>>

\* The longest list of raw connections the query delivers.
MaxConns == 2

-----------------------------------------------------------------------------
(* Values *)

\* JavaScript's undefined: an absent operation, an absent constructInfo.fqn.
Undefined == "<undefined>"

FunctionFqn == "@winglang/sdk.cloud.Function"
AutoIdFqn   == "@winglang/sdk.std.AutoIdResource"
ScheduleFqn == "@winglang/sdk.cloud.Schedule"
EndpointFqn == "@winglang/sdk.cloud.Endpoint"
ApiFqn      == "@winglang/sdk.cloud.Api"

\* `${x}` of a string or undefined.
ToStr(x) == IF x = Undefined THEN "undefined" ELSE x

\* if (x) on a string or undefined.
Truthy(x) == x # Undefined /\ x # ""

-----------------------------------------------------------------------------
(* The construct tree: root -> Default -> { A -> { B, C }, F } *)

RootPath    == <<"root">>
DefaultPath == RootPath \o <<"/", "Default">>
APath       == DefaultPath \o <<"/", "A">>
BPath       == APath \o <<"/", "B">>
CPath       == APath \o <<"/", "C">>
FPath       == DefaultPath \o <<"/", "F">>

Nodes == {RootPath, DefaultPath, APath, BPath, CPath, FPath}

\* Object.values(node.children ?? {}), as paths, in insertion order.
Children(path) ==
    CASE path = RootPath    -> <<DefaultPath>>
      [] path = DefaultPath -> <<APath, FPath>>
      [] path = APath       -> <<BPath, CPath>>
      [] OTHER              -> <<>>

Range(s) == {s[i] : i \in DOMAIN s}

\* The kinds of A and F in the trees the query delivers.
TreeKinds ==
    { <<Undefined, FunctionFqn>>, <<ApiFqn, FunctionFqn>>,
      <<Undefined, ScheduleFqn>>, <<Undefined, EndpointFqn>> }

\* The trees the query delivers.  The synthetic wrappers root and Default
\* carry no kind and no hidden flag; B is an auto-id resource, C is plain;
\* A, B and C are declared hidden or not.
Trees ==
    { [fqn |-> (RootPath :> Undefined) @@ (DefaultPath :> Undefined) @@ (APath :> k[1])
                 @@ (BPath :> AutoIdFqn) @@ (CPath :> Undefined) @@ (FPath :> k[2]),
       hidden |-> (RootPath :> FALSE) @@ (DefaultPath :> FALSE) @@ (APath :> ha)
                 @@ (BPath :> hb) @@ (CPath :> hc) @@ (FPath :> FALSE)] :
        k \in TreeKinds, ha \in BOOLEAN, hb \in BOOLEAN, hc \in BOOLEAN }

\* The raw connections the query delivers (RawConnectionData without its
\* name, which useMap never reads).
ConnEnds == { <<APath, FPath>>, <<FPath, CPath>>, <<BPath, CPath>> }
ConnOps  == { <<Undefined, "invoke">>, <<Undefined, "get">>, <<"get", "invokeAsync">>, <<"get", "get">> }

RawConns ==
    { [source |-> e[1], target |-> e[2], sourceOp |-> o[1], targetOp |-> o[2]] :
        e \in ConnEnds, o \in ConnOps }

-----------------------------------------------------------------------------
(* Maps and lists *)

EmptyMap == [x \in {} |-> FALSE]

\* Array.prototype.filter / map over a sequence, by index selection.
RECURSIVE SelectIdx(_, _)
SelectIdx(n, keep) ==
    IF n = 0 THEN <<>>
    ELSE IF n \in keep THEN Append(SelectIdx(n - 1, keep), n)
         ELSE SelectIdx(n - 1, keep)

\* lodash uniqBy with the keys given as a sequence: the indices of the
\* first occurrence of every key, in order.
uniqBy(keys) ==
    SelectIdx(Len(keys), { i \in DOMAIN keys : \A j \in 1..(i - 1) : keys[j] # keys[i] })

-----------------------------------------------------------------------------
(* getNodeType, getNodeInflights *)

getNodeType(t, node, hasInflightConnections) ==
    IF t.fqn[node] = FunctionFqn THEN "function"
    ELSE IF t.fqn[node] = AutoIdFqn THEN "autoId"
    ELSE IF t.fqn[node] = ScheduleFqn THEN "scheduler"
    ELSE IF t.fqn[node] = EndpointFqn THEN "endpoint"
    ELSE LET hasVisibleChildren == \E child \in Range(Children(node)) : ~t.hidden[child]
         IN  IF t.fqn[node] = ApiFqn \/ hasInflightConnections \/ ~hasVisibleChildren
             THEN "construct"
             ELSE "container"

\* The operation names pushed by the two loops: targets first, then sources.
inflightNames(node, conns) ==
    LET targetIdx == SelectIdx(Len(conns), { i \in DOMAIN conns :
                         conns[i].target.id = node /\ Truthy(conns[i].target.operation) })
        sourceIdx == SelectIdx(Len(conns), { i \in DOMAIN conns :
                         conns[i].source.id = node /\ Truthy(conns[i].source.operation) })
    IN  [i \in DOMAIN targetIdx |-> conns[targetIdx[i]].target.operation]
        \o [i \in DOMAIN sourceIdx |-> conns[sourceIdx[i]].source.operation]

\* getNodeInflights without uniqBy: one record per pushed name.
getNodeInflightsNoUniq(node, conns) ==
    LET inflights == inflightNames(node, conns)
    IN  [k \in DOMAIN inflights |->
            [id   |-> node \o <<"#", inflights[k]>>,
             name |-> inflights[k],
             sourceOccupied |-> \E i \in DOMAIN conns :
                 conns[i].source.id = node /\ conns[i].source.operation = inflights[k],
             targetOccupied |-> \E i \in DOMAIN conns :
                 conns[i].target.id = node /\ conns[i].target.operation = inflights[k]]]

getNodeInflights(node, conns) ==
    LET inflights == inflightNames(node, conns)
        uniq      == uniqBy(inflights)
    IN  [k \in DOMAIN uniq |->
            LET connection == inflights[uniq[k]]
            IN  [id   |-> node \o <<"#", connection>>,
                 name |-> connection,
                 sourceOccupied |-> \E i \in DOMAIN conns :
                     conns[i].source.id = node /\ conns[i].source.operation = connection,
                 targetOccupied |-> \E i \in DOMAIN conns :
                     conns[i].target.id = node /\ conns[i].target.operation = connection]]

-----------------------------------------------------------------------------
(* The memos of useMap *)

\* nodeFqns: processNode visits every node of rawTree.
nodeFqnsMemo(t) == [n \in Nodes |-> t.fqn[n]]

\* Map.get: undefined for a key never set.
MapGet(map, key) == IF key \in DOMAIN map THEN map[key] ELSE Undefined

\* nodeTypes: getNodeType with the RAW connections' endpoints.
nodeTypesMemo(t, rc) ==
    [n \in Nodes |->
        getNodeType(t, n, \E i \in DOMAIN rc : rc[i].source = n \/ rc[i].target = n)]

\* hiddenMap: traverse(node, forceHidden) sets node and descends.
\* traverse descending with traverse(child) instead of traverse(child, hidden).
RECURSIVE traverseNoForce(_, _, _), traverseChildrenNoForce(_, _, _)
traverseNoForce(t, node, forceHidden) ==
    LET hidden == forceHidden \/ t.hidden[node]
    IN  (node :> hidden) @@ traverseChildrenNoForce(t, Children(node), FALSE)

traverseChildrenNoForce(t, kids, hidden) ==
    IF kids = <<>> THEN EmptyMap
    ELSE traverseNoForce(t, Head(kids), hidden) @@ traverseChildrenNoForce(t, Tail(kids), hidden)

RECURSIVE traverse(_, _, _), traverseChildren(_, _, _)
traverse(t, node, forceHidden) ==
    LET hidden == forceHidden \/ t.hidden[node]
    IN  (node :> hidden) @@ traverseChildren(t, Children(node), hidden)

traverseChildren(t, kids, hidden) ==
    IF kids = <<>> THEN EmptyMap
    ELSE traverse(t, Head(kids), hidden) @@ traverseChildren(t, Tail(kids), hidden)

\* The traversal starts at the children of the pseudo root, with no forceHidden.
hiddenMapMemo(t) == traverseChildren(t, Children(DefaultPath), FALSE)

\* path.match(/^(.+?)#/)?.[1] ?? path: the text before the first "#" that
\* has at least one character before it.
nodePathOf(path) ==
    LET hashes == { i \in 2..Len(path) : path[i] = "#" }
    IN  IF hashes = {} THEN path
        ELSE SubSeq(path, 1, (CHOOSE i \in hashes : \A j \in hashes : i <= j) - 1)

\* isNodeHidden with hiddenMap.get(nodePath) !== false.
isNodeHiddenUnlessFalse(hm, path) ==
    LET nodePath == nodePathOf(path)
    IN  ~(nodePath \in DOMAIN hm /\ hm[nodePath] = FALSE)

isNodeHidden(hm, path) ==
    LET nodePath == nodePathOf(path)
    IN  nodePath \in DOMAIN hm /\ hm[nodePath] = TRUE

-----------------------------------------------------------------------------
(* The call of bridgeConnections: its arguments *)

\* rawConnections.filter(...).map(...): the argument `connections`.
bridgeInput(rc, fq) ==
    LET keep == SelectIdx(Len(rc), { i \in DOMAIN rc :
                    rc[i].sourceOp # "invokeAsync" /\ rc[i].targetOp # "invokeAsync" })
    IN  [k \in DOMAIN keep |->
            LET connection == rc[keep[k]]
            IN  [source |-> [id |-> connection.source,
                             nodeFqn |-> MapGet(fq, connection.source),
                             operation |-> connection.sourceOp],
                 target |-> [id |-> connection.target,
                             nodeFqn |-> MapGet(fq, connection.target),
                             operation |-> connection.targetOp]]]

\* isNodeHidden: (node) => isNodeHidden(node.nodeFqn ?? "")
bridgeIsNodeHiddenByFqn(hm, node) == isNodeHidden(hm, <<ToStr(node.nodeFqn)>>)

\* isNodeHidden: (node) => isNodeHidden(node.id)
bridgeIsNodeHidden(hm, node) == isNodeHidden(hm, node.id)

\* getNodeId: (node) => `${node.id}#${node.operation}`
bridgeGetNodeIdWithOperation(node) == node.id \o <<"#", ToStr(node.operation)>>

\* getNodeId: (node) => node.id
bridgeGetNodeId(node) == node.id

\* getConnectionId without the target's operation.
bridgeGetConnectionIdNoTargetOp(connection) ==
    connection.source.id \o <<"#", ToStr(connection.source.operation), "#", "#">>
    \o connection.target.id

\* getConnectionId: `${source.id}#${source.operation}##${target.id}#${target.operation}`
bridgeGetConnectionId(connection) ==
    connection.source.id \o <<"#", ToStr(connection.source.operation), "#", "#">>
    \o connection.target.id \o <<"#", ToStr(connection.target.operation)>>

-----------------------------------------------------------------------------
(* bridgeConnections (use-map.bridge-connections.ts) *)

hasParent(path) == \E i \in DOMAIN path : path[i] = "/"

parentPath(path) ==
    SubSeq(path, 1, (CHOOSE i \in DOMAIN path :
                        path[i] = "/" /\ \A j \in DOMAIN path : path[j] = "/" => j <= i) - 1)

\* While the node is hidden, replace its path with its parent's; the root stops the ascent.
RECURSIVE ascend(_, _)
ascend(hm, node) ==
    IF bridgeIsNodeHidden(hm, node) /\ hasParent(node.id)
    THEN ascend(hm, [node EXCEPT !.id = parentPath(node.id)])
    ELSE node

\* One endpoint: the path is rewritten, the operation kept.  The kind the
\* rewritten endpoint carries is the raw node's (keepFqn) or the ancestor's.
bridgeNode(hm, fq, node, keepFqn) ==
    LET up == ascend(hm, [node EXCEPT !.id = bridgeGetNodeId(node)])
    IN  IF keepFqn \/ up.id = node.id THEN up
        ELSE [up EXCEPT !.nodeFqn = MapGet(fq, up.id)]

bridgeConnections(conns, hm, fq, keepFqn) ==
    LET bridged == [i \in DOMAIN conns |->
                      [source |-> bridgeNode(hm, fq, conns[i].source, keepFqn),
                       target |-> bridgeNode(hm, fq, conns[i].target, keepFqn)]]
        noLoopIdx == SelectIdx(Len(bridged), { i \in DOMAIN bridged :
                        bridgeGetNodeId(bridged[i].source) # bridgeGetNodeId(bridged[i].target) })
        noLoop  == [k \in DOMAIN noLoopIdx |-> bridged[noLoopIdx[k]]]
        uniq    == uniqBy([k \in DOMAIN noLoop |-> bridgeGetConnectionId(noLoop[k])])
    IN  [k \in DOMAIN uniq |-> noLoop[uniq[k]]]

connectionsMemo(rc, fq, hm, keepFqn) ==
    bridgeConnections(bridgeInput(rc, fq), hm, fq, keepFqn)

-----------------------------------------------------------------------------
(* Ports and edges *)

\* getConnectionId testing the operation before the function kind.
getConnectionIdOperationFirst(hm, nodePath, nodeFqn, operation, type) ==
    IF isNodeHidden(hm, nodePath) THEN nodePath
    ELSE IF Truthy(operation) THEN nodePath \o <<"#", operation, "#", type>>
    ELSE IF nodeFqn = FunctionFqn THEN nodePath \o <<"#", "invoke", "#", type>>
    ELSE nodePath \o <<"#", type>>

getConnectionId(hm, nodePath, nodeFqn, operation, type) ==
    IF isNodeHidden(hm, nodePath) THEN nodePath
    ELSE IF nodeFqn = FunctionFqn THEN nodePath \o <<"#", "invoke", "#", type>>
    ELSE IF Truthy(operation) THEN nodePath \o <<"#", operation, "#", type>>
    ELSE nodePath \o <<"#", type>>

edgesMemo(conns, hm) ==
    [i \in DOMAIN conns |->
        LET source == getConnectionId(hm, conns[i].source.id, conns[i].source.nodeFqn,
                                      conns[i].source.operation, "source")
            target == getConnectionId(hm, conns[i].target.id, conns[i].target.nodeFqn,
                                      conns[i].target.operation, "target")
        IN  [id |-> source \o <<"#", "#">> \o target,
             sources |-> <<source>>,
             targets |-> <<target>>]]

-----------------------------------------------------------------------------
(* nodeInfo *)

nodeDescriptor(t, node, conns) ==
    LET nodeType == getNodeType(t, node,
                        \E i \in DOMAIN conns : conns[i].source.id = node \/ conns[i].target.id = node)
        inflights == getNodeInflights(node, conns)
    IN  CASE nodeType = "container" -> [type |-> nodeType, children |-> Children(node)]
          [] nodeType = "autoId"    -> [type |-> nodeType]
          [] nodeType = "function"  -> [type |-> nodeType]
          [] OTHER                  -> [type |-> "construct", inflights |-> inflights]

nodeInfoMemo(t, conns) == [n \in Nodes |-> nodeDescriptor(t, n, conns)]

-----------------------------------------------------------------------------
(* The state machine: every delivery of query data renders useMap once *)

\* One render of useMap with query.data = {tree: t, connections: rc}.
useMap(t, rc, keepFqn) ==
    /\ rawTree' = t
    /\ rawConnections' = rc
    /\ nodeTypes' = nodeTypesMemo(t, rc)
    /\ hiddenMap' = hiddenMapMemo(t)
    /\ connections' = connectionsMemo(rc, nodeFqnsMemo(t), hiddenMap', keepFqn)
    /\ edges' = edgesMemo(connections', hiddenMap')
    /\ nodeInfo' = nodeInfoMemo(t, connections')

\* The first render: query.data is undefined, every memo but hiddenMap and
\* edges returns undefined (here: empty).  rawTree is undefined: it holds a
\* placeholder that nothing reads while loaded is false.
Init ==
    /\ loaded = FALSE
    /\ rawTree = CHOOSE t \in Trees : \A n \in Nodes : t.fqn[n] # ApiFqn /\ t.fqn[n] # ScheduleFqn
                                                       /\ t.fqn[n] # EndpointFqn /\ ~t.hidden[n]
    /\ rawConnections = <<>>
    /\ nodeTypes = EmptyMap
    /\ hiddenMap = EmptyMap
    /\ connections = <<>>
    /\ edges = <<>>
    /\ nodeInfo = EmptyMap

\* The query succeeds for the first time.
QueryLoad ==
    /\ ~loaded
    /\ loaded' = TRUE
    /\ \E t \in Trees, keepFqn \in BOOLEAN : useMap(t, <<>>, keepFqn)

\* The query is refetched: the application has one more connection.
QueryRefetch ==
    /\ loaded
    /\ Len(rawConnections) < MaxConns
    /\ loaded' = TRUE
    /\ \E c \in RawConns, keepFqn \in BOOLEAN :
           useMap(rawTree, Append(rawConnections, c), keepFqn)

Next == QueryLoad \/ QueryRefetch

Spec == Init /\ [][Next]_vars

-----------------------------------------------------------------------------
(* Vocabulary of the properties, stated on the tree itself *)

\* The ancestors of a path and the path itself: its prefixes ending before a "/".
AncestorsOrSelf(path) ==
    { SubSeq(path, 1, k) : k \in { i - 1 : i \in { j \in DOMAIN path : path[j] = "/" } } \cup {Len(path)} }

\* Hidden (effective): the node's own flag or the flag of any ancestor.
EffectivelyHidden(path) ==
    \E a \in AncestorsOrSelf(path) : a \in Nodes /\ rawTree.hidden[a]

\* The nearest ancestor-or-self that is not effectively hidden; the root if there is none.
NearestVisible(path) ==
    LET visible == { a \in AncestorsOrSelf(path) : ~EffectivelyHidden(a) }
    IN  IF visible = {} THEN RootPath
        ELSE CHOOSE a \in visible : \A b \in visible : Len(b) <= Len(a)

\* The raw connections that reach the bridger.
Upstream == { i \in DOMAIN rawConnections :
                rawConnections[i].sourceOp # "invokeAsync" /\ rawConnections[i].targetOp # "invokeAsync" }

Tuple(connection) ==
    <<connection.source.id, connection.source.operation,
      connection.target.id, connection.target.operation>>

\* The tuple a raw connection is expected to be rewritten to.
ExpectedTuple(c) ==
    <<NearestVisible(c.source), c.sourceOp, NearestVisible(c.target), c.targetOp>>

EndsWith(str, suffix) ==
    /\ Len(str) >= Len(suffix)
    /\ SubSeq(str, Len(str) - Len(suffix) + 1, Len(str)) = suffix

-----------------------------------------------------------------------------
(* C1 *)

\* C1 (bridging soundness): isNodeHidden returns false for the source id and
\* the target id of every bridged connection.
BridgingSoundness ==
    \A k \in DOMAIN connections :
        /\ ~isNodeHidden(hiddenMap, connections[k].source.id)
        /\ ~isNodeHidden(hiddenMap, connections[k].target.id)

\* A raw connection with a hidden endpoint has been bridged and kept.
BridgingSoundnessWitness ==
    \E i \in Upstream, k \in DOMAIN connections :
        /\ isNodeHidden(hiddenMap, rawConnections[i].source)
           \/ isNodeHidden(hiddenMap, rawConnections[i].target)
        /\ Tuple(connections[k]) = ExpectedTuple(rawConnections[i])

-----------------------------------------------------------------------------
(* C2 *)

\* C2 (endpoint rewriting): the bridged connections are exactly the raw
\* connections that reach the bridger and do not collapse to one node, each
\* endpoint moved to its nearest ancestor-or-self that is not effectively
\* hidden and each operation unchanged.
EndpointRewriting ==
    { Tuple(connections[k]) : k \in DOMAIN connections }
        = { t \in { ExpectedTuple(rawConnections[i]) : i \in Upstream } : t[1] # t[3] }

\* Scenario A: a connection whose source is the hidden A, with a child B that
\* is not declared hidden, has been bridged to A's parent.
EndpointRewritingWitness ==
    /\ loaded
    /\ rawTree.hidden[APath] /\ ~rawTree.hidden[BPath]
    /\ \E i \in Upstream, k \in DOMAIN connections :
        /\ rawConnections[i].source = APath
        /\ Tuple(connections[k]) = <<DefaultPath, rawConnections[i].sourceOp,
                                     FPath, rawConnections[i].targetOp>>

-----------------------------------------------------------------------------
(* C3 *)

\* C3 (no spurious self-loops): no bridged connection has source.id equal to
\* target.id.
NoSelfLoops ==
    \A k \in DOMAIN connections : connections[k].source.id # connections[k].target.id

\* A raw connection between two different nodes, with different operations,
\* whose endpoints ascend to the same visible node has been rendered.
NoSelfLoopsWitness ==
    \E i \in Upstream :
        /\ rawConnections[i].source # rawConnections[i].target
        /\ rawConnections[i].sourceOp # rawConnections[i].targetOp
        /\ isNodeHidden(hiddenMap, rawConnections[i].source)
        /\ NearestVisible(rawConnections[i].source) = NearestVisible(rawConnections[i].target)

-----------------------------------------------------------------------------
(* C4 *)

\* The tuples produced by rewriting the raw connections that reach the bridger.
RewrittenTuples ==
    LET input == bridgeInput(rawConnections, nodeFqnsMemo(rawTree))
    IN  { Tuple([source |-> bridgeNode(hiddenMap, nodeFqnsMemo(rawTree), input[i].source, TRUE),
                 target |-> bridgeNode(hiddenMap, nodeFqnsMemo(rawTree), input[i].target, TRUE)]) :
            i \in DOMAIN input }

\* C4 (bridged-connection dedup): no two bridged connections have the same
\* (source.id, source.operation, target.id, target.operation), and every such
\* tuple produced by rewriting a raw connection, with source.id different
\* from target.id, is in the output exactly once.
BridgedDedup ==
    /\ \A j, k \in DOMAIN connections : j # k => Tuple(connections[j]) # Tuple(connections[k])
    /\ \A t \in RewrittenTuples :
          t[1] # t[3] => Cardinality({ k \in DOMAIN connections : Tuple(connections[k]) = t }) = 1

\* Scenario B: the same raw connection was delivered twice; and two raw
\* connections that differ in the target's operation alone were delivered.
BridgedDedupWitness ==
    \/ \E i, j \in Upstream :
        /\ i # j
        /\ rawConnections[i] = rawConnections[j]
        /\ Len(connections) = 1
    \/ \E i, j \in Upstream :
        /\ rawConnections[i].targetOp # rawConnections[j].targetOp
        /\ Len(connections) = 2

-----------------------------------------------------------------------------
(* C5 *)

\* The paths a consumer asks isNodeHidden about: the nodes, a path that is
\* not in the tree, and these with an operation suffix.
GhostPath == DefaultPath \o <<"/", "Ghost">>

QueryPaths ==
    LET plain == Nodes \cup {GhostPath}
    IN  plain \cup { path \o <<"#", "get">> : path \in plain }
              \cup { path \o <<"#", "get", "#", "source">> : path \in plain }

\* hidden(n) = declaredHidden(n) OR hidden(parent(n)), for every node of the hidden map.
HiddenIsDeclaredOrInherited ==
    \A n \in DOMAIN hiddenMap :
        /\ hiddenMap[n] = (rawTree.hidden[n] \/ isNodeHidden(hiddenMap, parentPath(n)))
        /\ isNodeHidden(hiddenMap, n) = hiddenMap[n]
        /\ isNodeHidden(hiddenMap, parentPath(n)) => isNodeHidden(hiddenMap, n)

\* C5 as stated (visibility monotonicity): hidden(n) = declaredHidden(n) OR
\* hidden(parent(n)) in the hidden map, and isNodeHidden returns false for
\* any path that was never inserted.
VisibilityMonotonicityAsStated ==
    /\ HiddenIsDeclaredOrInherited
    /\ \A path \in QueryPaths : path \notin DOMAIN hiddenMap => ~isNodeHidden(hiddenMap, path)

\* C5 as amended: hidden(n) = declaredHidden(n) OR hidden(parent(n)) in the
\* hidden map, the map holds exactly the nodes below the application root
\* scope, and isNodeHidden returns false for any path whose text before its
\* first "#" was never inserted, and the map's value for that text otherwise.
VisibilityMonotonicity ==
    /\ HiddenIsDeclaredOrInherited
    /\ loaded => DOMAIN hiddenMap = Nodes \ {RootPath, DefaultPath}
    /\ \A n \in Nodes \cup {GhostPath} :
          \A path \in { n, n \o <<"#", "get">>, n \o <<"#", "get", "#", "source">> } :
              isNodeHidden(hiddenMap, path) = (n \in DOMAIN hiddenMap /\ EffectivelyHidden(n))

\* A node not declared hidden is hidden under its hidden parent, with and
\* without an operation suffix; a path outside the map is not hidden.
VisibilityMonotonicityWitness ==
    /\ loaded
    /\ rawTree.hidden[APath] /\ ~rawTree.hidden[BPath]
    /\ hiddenMap[BPath]
    /\ isNodeHidden(hiddenMap, BPath \o <<"#", "get">>)
    /\ ~isNodeHidden(hiddenMap, GhostPath)
    /\ ~isNodeHidden(hiddenMap, DefaultPath)

-----------------------------------------------------------------------------
(* C6 *)

\* C6 (classification rule): a node whose kind is none of function, autoId,
\* schedule, endpoint has the role construct if its kind is Api, or it is the
\* source or the target of a bridged connection, or none of its children is
\* effectively visible; otherwise container.
ClassificationRule ==
    loaded =>
        \A n \in Nodes :
            rawTree.fqn[n] \notin {FunctionFqn, AutoIdFqn, ScheduleFqn, EndpointFqn} =>
                nodeTypes[n] =
                    IF \/ rawTree.fqn[n] = ApiFqn
                       \/ \E k \in DOMAIN connections :
                              connections[k].source.id = n \/ connections[k].target.id = n
                       \/ ~\E child \in Range(Children(n)) : ~EffectivelyHidden(child)
                    THEN "construct"
                    ELSE "container"

-----------------------------------------------------------------------------
(* C7 *)

\* The operation names of the endpoints of conns whose id is the node.
IncidentOperations(node, conns) ==
    { conns[k].source.operation : k \in { j \in DOMAIN conns : conns[j].source.id = node } }
    \cup { conns[k].target.operation : k \in { j \in DOMAIN conns : conns[j].target.id = node } }

\* C7 (inflight completeness): getNodeInflights(n) has exactly one record for
\* every operation name of an endpoint whose id is n.path, none for another
\* name, and is empty for a node with no incident bridged connection; the
\* construct descriptors of nodeInfo carry that list.
InflightCompleteness ==
    \A n \in Nodes :
        LET inflights == getNodeInflights(n, connections)
            names     == IncidentOperations(n, connections) \ {Undefined}
        IN  /\ { inflights[k].name : k \in DOMAIN inflights } = names
            /\ Len(inflights) = Cardinality(names)
            /\ (loaded /\ nodeInfo[n].type = "construct") => nodeInfo[n].inflights = inflights
            /\ (~\E k \in DOMAIN connections :
                    connections[k].source.id = n \/ connections[k].target.id = n)
                  => inflights = <<>>

\* One operation name is used at a node both as a source and as a target.
InflightCompletenessWitness ==
    \E n \in Nodes, j, k \in DOMAIN connections :
        /\ connections[j].source.id = n
        /\ connections[k].target.id = n
        /\ connections[j].source.operation = connections[k].target.operation
        /\ connections[j].source.operation # Undefined
        /\ Len(getNodeInflights(n, connections)) = 1

-----------------------------------------------------------------------------
(* C8 *)

\* C8 (rendered-edge dedup): no two edges of the final edge list have the same id.
RenderedEdgeDedup ==
    \A j, k \in DOMAIN edges : j # k => edges[j].id # edges[k].id

-----------------------------------------------------------------------------
(* C9 *)

\* The port the rules of the Edge Port Assigner give.
PortRule(path, kind, operation, direction) ==
    CASE isNodeHidden(hiddenMap, path) -> path
      [] ~isNodeHidden(hiddenMap, path) /\ kind = FunctionFqn ->
            path \o <<"#", "invoke", "#", direction>>
      [] ~isNodeHidden(hiddenMap, path) /\ kind # FunctionFqn /\ operation # Undefined ->
            path \o <<"#", operation, "#", direction>>
      [] OTHER -> path \o <<"#", direction>>

\* C9 (port assignment order): the port id is the bare path of a hidden
\* path, else <path>#invoke#<direction> for the function kind whatever the
\* operation, else <path>#<operation>#<direction> with an operation, else
\* <path>#<direction>; and every edge's source port is the rule's port of its
\* bridged source and ends in #source, its target port the rule's port of its
\* bridged target and ends in #target, its id <sourcePort>##<targetPort>.
PortAssignment ==
    /\ \A path \in Nodes, kind \in {Undefined, FunctionFqn, ApiFqn},
          operation \in {Undefined, "get"}, direction \in {"source", "target"} :
          getConnectionId(hiddenMap, path, kind, operation, direction)
              = PortRule(path, kind, operation, direction)
    /\ Len(edges) = Len(connections)
    /\ \A k \in DOMAIN edges :
          LET source == PortRule(connections[k].source.id, connections[k].source.nodeFqn,
                                 connections[k].source.operation, "source")
              target == PortRule(connections[k].target.id, connections[k].target.nodeFqn,
                                 connections[k].target.operation, "target")
          IN  /\ edges[k].sources = <<source>>
              /\ edges[k].targets = <<target>>
              /\ edges[k].id = source \o <<"#", "#">> \o target
              /\ EndsWith(source, <<"#", "source">>)
              /\ EndsWith(target, <<"#", "target">>)

\* An edge ends at a function-kind node with an operation other than invoke,
\* and a hidden node exists.
PortAssignmentWitness ==
    /\ \E n \in DOMAIN hiddenMap : hiddenMap[n]
    /\ \E k \in DOMAIN edges :
        /\ connections[k].target.nodeFqn = FunctionFqn
        /\ connections[k].target.operation = "get"
        /\ edges[k].targets = <<connections[k].target.id \o <<"#", "invoke", "#", "target">>>>

-----------------------------------------------------------------------------
(* C10 *)

\* C10 (role consistency): every node has the same role in nodeTypes and in
\* nodeInfo; a schedule-kind node has descriptor type scheduler and an
\* endpoint-kind node descriptor type endpoint.
RoleConsistency ==
    loaded =>
        \A n \in Nodes :
            /\ nodeInfo[n].type = nodeTypes[n]
            /\ rawTree.fqn[n] = ScheduleFqn => nodeInfo[n].type = "scheduler"
            /\ rawTree.fqn[n] = EndpointFqn => nodeInfo[n].type = "endpoint"

====
